---------------------------- MODULE Spec2Model ----------------------------
(***************************************************************************)
(* State-machine model of the QuickJS sandbox control layer of             *)
(* ext/quickjs/quickjs_ext.c: one ContextWrapper (a sandbox instance), the *)
(* thread-local current_wrapper binding, the monotonic clock, and the      *)
(* script engine seen through the calls the extension makes into it and    *)
(* the callbacks (interrupt hook, console.log, fetch) it makes back.       *)
(***************************************************************************)
EXTENDS Integers, Sequences, FiniteSets, TLC

VARIABLES
    wrapper,          \* the ContextWrapper struct (lines 29-43)
    current_wrapper,  \* static __thread ContextWrapper *current_wrapper (line 46)
    now,              \* CLOCK_MONOTONIC in milliseconds (get_time_ms)
    pc,               \* where sandbox_eval stands: "idle", "running" (inside JS_Eval), "marshal" (after line 622)
    script,           \* the script being evaluated by JS_Eval
    thrown,           \* the engine's exception in flight (JS_EXCEPTION pending in the context)
    frame,            \* locals of sandbox_eval after JS_Eval returned: result, console_output, console_truncated
    outcome,          \* what the last evaluate call gave its caller
    engine_ok,        \* FALSE once a host exception has unwound through the engine's stack
    registered,       \* history: the argument of the last http_callback= call
    run,              \* history of the evaluate call in progress (or the last one)
    eff,              \* history: the most recent call of the effect entry point fetch()
    nevals,           \* history: number of evaluate calls started
    globals,          \* the own properties set_variable created on the script global object
    lastset,          \* history: the most recent set_variable call
    life,             \* the instance's engine resources and the history of their releases
    other             \* the wrapper of a second instance of the same thread

vars == <<wrapper, current_wrapper, now, pc, script, thrown, frame, outcome,
          engine_ok, registered, run, eff, nevals, globals, lastset, life, other>>

---------------------------------------------------------------------------
(* Bounds of the model *)

\* evaluate calls per instance lifetime
MaxEvals == 2
\* callbacks (console.log, fetch) a script makes in one evaluation
MaxSteps == 2
\* last value of the monotonic clock
MaxClock == 3

(* Program constants *)

\* wrapper->console_output_capacity = 1024 (line 537)
INITIAL_CAPACITY == 1024

---------------------------------------------------------------------------
(* Values *)

Qnil == "nil"
NULL == "NULL"
NUL == "NUL"

Min(a, b) == IF a < b THEN a ELSE b

Repeat(c, n) == [i \in 1..n |-> c]

\* strlen(): the bytes before the first NUL byte
strlen(s) ==
    IF \E i \in 1..Len(s) : s[i] = NUL
    THEN (CHOOSE i \in 1..Len(s) : s[i] = NUL /\ \A j \in 1..(i - 1) : s[j] # NUL) - 1
    ELSE Len(s)

\* Configurations drawn at construction: timeout_ms (0 = no timeout) and
\* console_log_max_size, below, just above and well above the initial capacity
TimeoutChoices == {0, 1}
ConsoleMaxChoices == {2, 1030}

---------------------------------------------------------------------------
(* OutputCapture: append_console_output, lines 71-111 *)

\* the mutant clips nothing: it copies len bytes whatever is available
append_console_output_noclip(w, str, len, realloc_ok) ==
    IF len = 0 THEN w
    ELSE IF w.console_output_len >= w.console_max_size
         THEN [w EXCEPT !.console_truncated = 1]
         ELSE LET to_append == len
                  need == w.console_output_len + to_append > w.console_output_capacity
              IN  IF need /\ ~realloc_ok THEN w
                  ELSE [w EXCEPT
                          !.console_output_capacity =
                              IF need THEN w.console_output_len + to_append ELSE @,
                          !.console_alloc =
                              IF need THEN w.console_output_len + to_append + 1 ELSE @,
                          !.console_output = @ \o SubSeq(str, 1, to_append),
                          !.console_output_len = @ + to_append]

\* realloc_ok: whether realloc (line 98), if it is called, returns a buffer
append_console_output(w, str, len, realloc_ok) ==
    IF len = 0 THEN w
    ELSE IF w.console_output_len >= w.console_max_size
         THEN [w EXCEPT !.console_truncated = 1]
         ELSE LET available == w.console_max_size - w.console_output_len
                  to_append == Min(len, available)
                  w1 == IF to_append < len
                        THEN [w EXCEPT !.console_truncated = 1] ELSE w
                  need == w1.console_output_len + to_append > w1.console_output_capacity
                  doubled == w1.console_output_capacity * 2
                  capped == IF doubled > w1.console_max_size
                            THEN w1.console_max_size ELSE doubled
                  new_capacity == IF capped < w1.console_output_len + to_append
                                  THEN w1.console_output_len + to_append ELSE capped
              IN  IF need /\ ~realloc_ok THEN w1
                  ELSE [w1 EXCEPT
                          !.console_output_capacity = IF need THEN new_capacity ELSE @,
                          !.console_alloc = IF need THEN new_capacity + 1 ELSE @,
                          !.console_output = @ \o SubSeq(str, 1, to_append),
                          !.console_output_len = @ + to_append]

(* console.log / console.warn / console.error: js_console_log, lines 114-132 *)

\* The append calls one console call makes, in order. An argument is
\* JS_ToCString's result (line 123): [null |-> TRUE] when it returns NULL,
\* else its bytes in cstr.
RECURSIVE ConsolePieces(_, _)
ConsolePieces(args, i) ==
    IF i > Len(args) THEN << <<"\n">> >>
    ELSE (IF i > 1 THEN << <<" ">> >> ELSE << >>)
         \o (IF args[i].null THEN << >> ELSE << args[i].cstr >>)
         \o ConsolePieces(args, i + 1)

\* oks[j]: realloc's answer in the j-th append call
RECURSIVE AppendAll(_, _, _, _)
AppendAll(w, pieces, oks, j) ==
    IF j > Len(pieces) THEN w
    ELSE AppendAll(append_console_output(w, pieces[j], strlen(pieces[j]), oks[j]),
                   pieces, oks, j + 1)

js_console_log(w, args, oks) == AppendAll(w, ConsolePieces(args, 1), oks, 1)


---------------------------------------------------------------------------
(* Numbers.  A magnitude is a sequence of bits, most significant first and *)
(* without leading zeros (<<>> is 0); a double is a sign, the bits of its  *)
(* integer part and the bits after the binary point.                       *)

\* bits of an IEEE-754 double's significand
DBL_MANT_DIG == 53
\* FIXNUM_MAX = 2^62 - 1 and FIXNUM_MIN = -2^62: a fixnum magnitude has at most 62 bits
FIXNUM_BITS == 62

Zeros(n) == [i \in 1..n |-> 0]
Pow2(n) == <<1>> \o Zeros(n)

RECURSIVE AnyOne(_)
AnyOne(bits) == IF bits = <<>> THEN FALSE ELSE Head(bits) = 1 \/ AnyOne(Tail(bits))

\* bits + 1
RECURSIVE Inc(_)
Inc(bits) ==
    IF bits = <<>> THEN <<1>>
    ELSE LET n == Len(bits)
         IN IF bits[n] = 0 THEN SubSeq(bits, 1, n - 1) \o <<1>>
            ELSE Inc(SubSeq(bits, 1, n - 1)) \o <<0>>

\* (double)n for an integer magnitude: round to nearest, ties to even
RoundToDouble(bits) ==
    IF Len(bits) <= DBL_MANT_DIG THEN bits
    ELSE LET keep == SubSeq(bits, 1, DBL_MANT_DIG)
             rest == SubSeq(bits, DBL_MANT_DIG + 1, Len(bits))
             up   == rest[1] = 1 /\ (AnyOne(Tail(rest)) \/ keep[DBL_MANT_DIG] = 1)
         IN (IF up THEN Inc(keep) ELSE keep) \o Zeros(Len(rest))

\* TYPE(v) == T_FIXNUM for an Integer: FIXNUM_MIN <= v <= FIXNUM_MAX
IsFixnum(neg, bits) ==
    \/ Len(bits) <= FIXNUM_BITS
    \/ neg /\ bits = Pow2(FIXNUM_BITS)

---------------------------------------------------------------------------
(* Script values (JSValue) and host values (VALUE) *)

JS_NULL == [t |-> "null"]
JS_UNDEFINED == [t |-> "undefined"]
JS_EXCEPTION == [t |-> "exception"]
JSBool(b) == [t |-> "bool", b |-> b]
JSNumber(neg, int, frac) == [t |-> "number", neg |-> neg, int |-> int, frac |-> frac]
JSString(s) == [t |-> "string", s |-> s]
JSArray(e) == [t |-> "array", e |-> e]
\* props: the own properties in creation order, each [k, v, accessor]
JSObject(props) == [t |-> "object", props |-> props]
JSFunction(props) == [t |-> "function", props |-> props]
JSSymbol == [t |-> "symbol"]
JSProp(k, v) == [k |-> k, v |-> v, accessor |-> FALSE]
JSAccessor(k, v) == [k |-> k, v |-> v, accessor |-> TRUE]

HNil == [t |-> "nil"]
HBool(b) == [t |-> "bool", b |-> b]
HInt(neg, int) == [t |-> "int", neg |-> neg, int |-> int]
HFloat(neg, int, frac) == [t |-> "float", neg |-> neg, int |-> int, frac |-> frac]
HStr(s) == [t |-> "str", s |-> s]
HSym(s) == [t |-> "sym", s |-> s]
HAry(e) == [t |-> "ary", e |-> e]
\* kv: the entries in insertion order, each [k, v]
HHash(kv) == [t |-> "hash", kv |-> kv]
\* any other host object, with the string its to_s gives
HObj(s) == [t |-> "obj", s |-> s]
\* a host exception raised (rb_raise) out of the conversion
HRaise(cls) == [t |-> "raise", cls |-> cls]

\* JS_NewString(ctx, str): the C string str
JS_NewString(str) == JSString(SubSeq(str, 1, strlen(str)))

\* StringValueCStr(v): raises ArgumentError when the string holds a NUL byte
HasNul(s) == \E i \in 1..Len(s) : s[i] = NUL

(* The engine's property order (JS_GetOwnPropertyNames, line 320): the     *)
(* canonical array-index keys in ascending order, then the other string    *)
(* keys in creation order.                                                 *)

Digits == <<"0", "1", "2", "3", "4", "5", "6", "7", "8", "9">>
IsDigit(c) == \E d \in 1..10 : Digits[d] = c
DigitValue(c) == (CHOOSE d \in 1..10 : Digits[d] = c) - 1

IsArrayIndex(k) ==
    /\ Len(k) >= 1
    /\ Len(k) <= 9
    /\ \A i \in 1..Len(k) : IsDigit(k[i])
    /\ (Len(k) = 1 \/ k[1] # "0")

RECURSIVE IndexValue(_)
IndexValue(k) ==
    IF k = <<>> THEN 0
    ELSE 10 * IndexValue(SubSeq(k, 1, Len(k) - 1)) + DigitValue(k[Len(k)])

\* JS_SetPropertyStr on an ordinary object: assign in place or create last
JS_SetPropertyStr(props, k, v) ==
    IF \E i \in 1..Len(props) : props[i].k = k
    THEN [i \in 1..Len(props) |-> IF props[i].k = k THEN JSProp(k, v) ELSE props[i]]
    ELSE Append(props, JSProp(k, v))

RECURSIVE SortByIndex(_)
SortByIndex(ps) ==
    IF ps = <<>> THEN <<>>
    ELSE LET m == CHOOSE i \in 1..Len(ps) :
                    \A j \in 1..Len(ps) : IndexValue(ps[i].k) <= IndexValue(ps[j].k)
         IN <<ps[m]>> \o SortByIndex(SubSeq(ps, 1, m - 1) \o SubSeq(ps, m + 1, Len(ps)))

JS_GetOwnPropertyNames(props) ==
    SortByIndex(SelectSeq(props, LAMBDA p : IsArrayIndex(p.k)))
    \o SelectSeq(props, LAMBDA p : ~IsArrayIndex(p.k))

---------------------------------------------------------------------------
(* ValueBridge, host to script: hash_foreach_cb (lines 353-386) and        *)
(* ruby_to_js (lines 389-478).  The result is a script value, or           *)
(* HRaise(cls) when a Ruby C API call raises out of the conversion.        *)

\* JS_NewInt64(ctx, (long)v) and JS_NewFloat64(ctx, NUM2DBL(v)): a script
\* number is a double
JS_NewInt64(neg, bits) == JSNumber(neg, RoundToDouble(bits), <<>>)
JS_NewFloat64(neg, int, frac) == JSNumber(neg, int, frac)

\* the C string a hash key gives (lines 364-372), or HRaise
KeyCStr(key) ==
    IF key.t = "sym" THEN HStr(SubSeq(key.s, 1, strlen(key.s)))
    ELSE IF HasNul(key.s) THEN HRaise("ArgumentError")
    ELSE HStr(key.s)

RECURSIVE ruby_to_js(_)
RECURSIVE ary_to_js(_, _)
RECURSIVE hash_foreach(_, _)

\* rb_hash_foreach(rb_val, hash_foreach_cb, &data): data is [t, props, has_error]
hash_foreach(kv, data) ==
    IF kv = <<>> \/ data.has_error THEN data
    ELSE LET key_str == KeyCStr(Head(kv).k)
         IN IF key_str.t = "raise" THEN key_str
            ELSE LET js_val == ruby_to_js(Head(kv).v)
                 IN IF js_val.t = "raise" THEN js_val
                    ELSE IF js_val = JS_EXCEPTION
                         THEN [data EXCEPT !.has_error = TRUE]
                         ELSE hash_foreach(Tail(kv),
                                  [data EXCEPT !.props =
                                      JS_SetPropertyStr(@, key_str.s, js_val)])

\* the loop of lines 441-449 over the elements left, arr the array so far
ary_to_js(elems, arr) ==
    IF elems = <<>> THEN JSArray(arr)
    ELSE LET js_elem == ruby_to_js(Head(elems))
         IN IF js_elem.t = "raise" \/ js_elem = JS_EXCEPTION THEN js_elem
            ELSE ary_to_js(Tail(elems), Append(arr, js_elem))

ruby_to_js(rb_val) ==
    CASE rb_val.t = "nil" -> JS_NULL
      [] rb_val.t = "bool" -> JSBool(rb_val.b)
      [] rb_val.t = "int" ->
            \* T_FIXNUM and T_BIGNUM both end as the nearest double
            IF IsFixnum(rb_val.neg, rb_val.int)
            THEN JS_NewInt64(rb_val.neg, rb_val.int)
            ELSE JS_NewFloat64(rb_val.neg, RoundToDouble(rb_val.int), <<>>)
      [] rb_val.t = "float" -> JS_NewFloat64(rb_val.neg, rb_val.int, rb_val.frac)
      [] rb_val.t = "str" ->
            IF HasNul(rb_val.s) THEN HRaise("ArgumentError")
            ELSE JS_NewString(rb_val.s)
      [] rb_val.t = "sym" -> JS_NewString(rb_val.s)
      [] rb_val.t = "ary" -> ary_to_js(rb_val.e, <<>>)
      [] rb_val.t = "hash" ->
            LET data == hash_foreach(rb_val.kv,
                            [t |-> "data", props |-> <<>>, has_error |-> FALSE])
            IN IF data.t = "raise" THEN data
               ELSE IF data.has_error THEN JS_EXCEPTION
               ELSE JSObject(data.props)
      [] OTHER ->
            \* fallback: rb_funcall(rb_val, "to_s"), StringValueCStr
            IF HasNul(rb_val.s) THEN HRaise("ArgumentError")
            ELSE JS_NewString(rb_val.s)

---------------------------------------------------------------------------
(* ValueBridge, script to host: js_to_ruby, lines 258-343.  interrupted:   *)
(* whether the script code a property read runs (an accessor) is aborted   *)
(* by the interrupt hook, so that the read gives JS_EXCEPTION.             *)

Ones(n) == [i \in 1..n |-> 1]

\* a <= b for two magnitudes
RECURSIVE BitsLeq(_, _)
BitsLeq(a, b) ==
    IF Len(a) # Len(b) THEN Len(a) < Len(b)
    ELSE IF a = <<>> THEN TRUE
    ELSE IF Head(a) # Head(b) THEN Head(a) < Head(b)
    ELSE BitsLeq(Tail(a), Tail(b))

\* lines 276-283.  d == (int64_t)d holds of an integral d inside int64; the
\* cast of a larger d is undefined, and whatever it gives the range tests
\* that follow are false.  FIXNUM_MAX and FIXNUM_MIN are converted to double
\* for the comparisons.  LONG2FIX((long)d) keeps 63 bits: 2^62 wraps to -2^62.
number_to_ruby(val) ==
    LET integral == val.frac = <<>>
        ge_min == ~val.neg \/ BitsLeq(val.int, RoundToDouble(Pow2(FIXNUM_BITS)))
        le_max == val.neg \/ BitsLeq(val.int, RoundToDouble(Ones(FIXNUM_BITS)))
    IN IF integral /\ ge_min /\ le_max
       THEN IF val.int = <<>> THEN HInt(FALSE, <<>>)
            ELSE IF val.int = Pow2(FIXNUM_BITS) THEN HInt(TRUE, val.int)
            ELSE HInt(val.neg, val.int)
       ELSE HFloat(val.neg, val.int, val.frac)

\* rb_hash_aset(rb_hash, rb_key, rb_val)
rb_hash_aset(kv, key, v) ==
    IF \E i \in 1..Len(kv) : kv[i].k = key
    THEN [i \in 1..Len(kv) |-> IF kv[i].k = key THEN [k |-> key, v |-> v] ELSE kv[i]]
    ELSE Append(kv, [k |-> key, v |-> v])

\* rb_str_new2(str) of the C string JS_ToCString gives
rb_str_new2(s) == HStr(SubSeq(s, 1, strlen(s)))

RECURSIVE js_to_ruby(_, _)
RECURSIVE elems_to_ruby(_, _, _)
RECURSIVE props_to_ruby(_, _, _)

\* the loop of lines 305-310
elems_to_ruby(interrupted, elems, rb_array) ==
    IF elems = <<>> THEN HAry(rb_array)
    ELSE elems_to_ruby(interrupted, Tail(elems),
                       Append(rb_array, js_to_ruby(interrupted, Head(elems))))

\* the loop of lines 322-336; JS_GetProperty runs an accessor's script code
props_to_ruby(interrupted, props, rb_hash) ==
    IF props = <<>> THEN HHash(rb_hash)
    ELSE LET p == Head(props)
             prop_val == IF p.accessor /\ interrupted THEN JS_EXCEPTION ELSE p.v
         IN props_to_ruby(interrupted, Tail(props),
                rb_hash_aset(rb_hash, rb_str_new2(p.k),
                             js_to_ruby(interrupted, prop_val)))

js_to_ruby(interrupted, val) ==
    CASE val.t = "null" -> HNil
      [] val.t = "undefined" -> HNil
      [] val.t = "bool" -> HBool(val.b)
      [] val.t = "number" -> number_to_ruby(val)
      [] val.t = "string" -> rb_str_new2(val.s)
      [] val.t = "array" -> elems_to_ruby(interrupted, val.e, <<>>)
      \* JS_IsObject holds of every object, a function included
      [] val.t \in {"object", "function"} ->
            props_to_ruby(interrupted, JS_GetOwnPropertyNames(val.props), <<>>)
      [] OTHER -> HNil

---------------------------------------------------------------------------
(* Host exceptions, thrown script values, results of evaluate *)

\* Qnil in an exception slot
NoExc == [cls |-> Qnil, call |-> 0]
\* the exception object the handler raised in the call-th effect call
HostExc(cls, call) == [cls |-> cls, call |-> call]

\* rb_eQuickJSHTTPBlockedError, rb_eQuickJSHTTPLimitError, rb_eQuickJSHTTPError
EffectErrorClasses == {"HTTPBlockedError", "HTTPLimitError", "HTTPError"}
\* what a handler raises: the three reserved classes and any other class
HandlerRaises == EffectErrorClasses \cup {"RuntimeError"}

SyntaxErrorTag == <<"S", "y", "n", "t", "a", "x", "E", "r", "r", "o", "r">>
ErrorTag == <<"E", "r", "r", "o", "r">>
TypeErrorTag == <<"T", "y", "p", "e">> \o ErrorTag
InternalErrorTag == <<"I", "n", "t", "e", "r", "n", "a", "l">> \o ErrorTag

\* a value thrown inside the engine: str is what JS_ToCString gives for it,
\* uncatchable what JS_SetUncatchableError sets (the engine's interrupt),
\* scripted whether stringifying it runs script code (its own toString),
\* unprintable whether JS_ToCString gives NULL for it (its toString throws),
\* has_stack whether it is an object with a stack property that is neither
\* undefined nor null, stack what JS_ToCString gives for that property
Thrown(str, uncatchable, scripted) ==
    [set |-> TRUE, str |-> str, uncatchable |-> uncatchable, scripted |-> scripted,
     unprintable |-> FALSE, has_stack |-> FALSE, stack |-> <<>>]
ThrownObject(str, unprintable, stack) ==
    [set |-> TRUE, str |-> str, uncatchable |-> FALSE, scripted |-> FALSE,
     unprintable |-> unprintable, has_stack |-> TRUE, stack |-> stack]
NoThrown == [set |-> FALSE, str |-> <<>>, uncatchable |-> FALSE, scripted |-> FALSE,
             unprintable |-> FALSE, has_stack |-> FALSE, stack |-> <<>>]

\* the engine's compile failure of the source
SyntaxFailure == Thrown(SyntaxErrorTag \o <<":", " ", "u">>, FALSE, FALSE)
\* JS_ThrowTypeError(ctx, "fetch() ...") (lines 154, 158, 163, 169)
FetchTypeError == Thrown(TypeErrorTag \o <<":", " ", "f">>, FALSE, FALSE)
\* JS_ThrowInternalError(ctx, "HTTP request failed") (line 225)
FetchInternalError == Thrown(InternalErrorTag \o <<":", " ", "H">>, FALSE, FALSE)
\* the engine's answer to an interrupt hook that returns 1
Interrupted == Thrown(InternalErrorTag \o <<":", " ", "i">>, TRUE, FALSE)
\* what a script throws itself: an Error, and an object with its own toString
ScriptThrows == {ThrownObject(ErrorTag \o <<":", " ", "x">>, FALSE, <<"s">>),
                 Thrown(<<"o">>, FALSE, TRUE)}

\* the mutant compares the whole strings
strncmp_eq_whole(s, tag, n) == s = tag

\* strncmp(s, tag, n) == 0
strncmp_eq(s, tag, n) == Len(s) >= n /\ SubSeq(s, 1, n) = SubSeq(tag, 1, n)

\* values a terminating script ends with: 1+1, and an object with an accessor
ScriptResults == {JSNumber(FALSE, <<1, 0>>, <<>>),
                  JSObject(<<JSAccessor(<<"x">>, JSNumber(FALSE, <<1>>, <<>>))>>)}
HasAccessor(v) == v.t = "object" /\ \E i \in 1..Len(v.props) : v.props[i].accessor

\* what evaluate gives its caller.  kind: "none" (no call has ended),
\* "Result", "TimeoutError", "SyntaxError", "JavascriptError", or
\* "HostException", a host exception of class cls: origin "deferred" (the
\* pending exception, rebuilt or the same object exc), "escaped" (raised
\* inside an effect call, outside rb_protect) or "source" (line 602)
Outcome(kind, cls, exc, rebuilt, origin, value, message, co, ct) ==
    [kind |-> kind, cls |-> cls, exc |-> exc, rebuilt |-> rebuilt,
     origin |-> origin, value |-> value, message |-> message, stack |-> <<>>,
     console_output |-> co, console_truncated |-> ct]
NoOutcome == Outcome("none", "", NoExc, FALSE, "", HNil, <<>>, <<>>, FALSE)

\* reads: the global the script is an expression of (<<>>: none)
NoScript == [syntax_ok |-> TRUE, loops |-> FALSE, reads |-> <<>>]
\* a script that ends by itself, one that never does, one that does not compile
Scripts == {[syntax_ok |-> TRUE, loops |-> FALSE, reads |-> <<>>],
            [syntax_ok |-> TRUE, loops |-> TRUE, reads |-> <<>>],
            [syntax_ok |-> FALSE, loops |-> FALSE, reads |-> <<>>]}
\* the script that is the name of a global: its value is the global's value
ReadScript(name) == [syntax_ok |-> TRUE, loops |-> FALSE, reads |-> name]

NoFrame == [result |-> JS_UNDEFINED, exception |-> NoThrown, console_output |-> <<>>,
            console_truncated |-> FALSE, interrupted |-> FALSE]

\* history of one evaluate call.  steps, nfetch: callbacks and effect calls
\* made; hook_fired: the interrupt hook returned 1; raised: the exceptions
\* the handler raised; threw, deferred: whether JS_Eval returned an
\* exception, and the pending exception at that time; attempted: the bytes
\* the console calls asked to append; copied: the bytes appended; loops: the
\* script never ends by itself; stale, dirty: the call began with timed_out
\* or a pending exception set, with console output or the truncation flag set;
\* reads: the global the script reads; result: what JS_Eval returned;
\* exception: the exception in flight when it returned; lines: the lines of
\* the console calls, each with its newline; started: the time at which the
\* call began; js_evals: the calls of JS_Eval it made
NoRun == [steps |-> 0, nfetch |-> 0, hook_fired |-> FALSE, raised |-> {},
          threw |-> FALSE, deferred |-> NoExc, attempted |-> 0, copied |-> <<>>,
          loops |-> FALSE, stale |-> FALSE, dirty |-> FALSE, reads |-> <<>>,
          result |-> JS_UNDEFINED, exception |-> NoThrown, lines |-> <<>>,
          started |-> 0, js_evals |-> 0]

\* no set_variable call yet; ret is Qnil once a call has returned
NoSet == [ret |-> "", name |-> <<>>, value |-> HNil, marshalled |-> FALSE]

NoEff == [n |-> 0, cb |-> Qnil, target |-> "", invoked |-> Qnil, calls |-> 0, result |-> "",
          pending_before |-> NoExc, pending_after |-> NoExc]

---------------------------------------------------------------------------
(* SandboxInstance *)

\* sandbox_alloc, lines 514-518: the wrapper is allocated and zeroed, so
\* ctx, rt and console_output are NULL; released is the history of the
\* releases (JS_FreeContext, JS_FreeRuntime, free) in the order they happen
sandbox_alloc ==
    [state |-> "allocated", ctx |-> FALSE, rt |-> FALSE, console_output |-> FALSE,
     struct |-> TRUE, released |-> <<>>]

\* lines 551-556 without the assignment rt = NULL after JS_FreeRuntime
sandbox_initialize_context_failed_keeprt(l) ==
    [l EXCEPT !.state = "failed", !.released = @ \o <<"rt">>]

\* sandbox_initialize, lines 551-556: JS_NewContext returned NULL; the runtime
\* is released, its pointer cleared, and RuntimeError raised
sandbox_initialize_context_failed(l) ==
    [l EXCEPT !.state = "failed", !.rt = FALSE, !.released = @ \o <<"rt">>]

\* sandbox_initialize, lines 530-557, on the resources: a conversion of an
\* option may raise before anything is allocated (530-532); then the buffer
\* is allocated (538), the runtime created (543, RuntimeError when NULL) and
\* the context created (550)
sandbox_initialize_resources(l, opts_ok, rt_ok, ctx_ok) ==
    IF ~opts_ok THEN [l EXCEPT !.state = "failed"]
    ELSE LET l1 == [l EXCEPT !.console_output = TRUE]
         IN IF ~rt_ok THEN [l1 EXCEPT !.state = "failed"]
            ELSE LET l2 == [l1 EXCEPT !.rt = TRUE]
                 IN IF ~ctx_ok THEN sandbox_initialize_context_failed(l2)
                    ELSE [l2 EXCEPT !.state = "ready", !.ctx = TRUE]

\* sandbox_free, lines 481-499: each pointer that is not NULL is released and
\* cleared, the context first, then the runtime, then the buffer; the wrapper
\* itself is freed last
sandbox_free(l) ==
    LET l1 == IF l.ctx THEN [l EXCEPT !.ctx = FALSE, !.released = @ \o <<"ctx">>] ELSE l
        l2 == IF l1.rt THEN [l1 EXCEPT !.rt = FALSE, !.released = @ \o <<"rt">>] ELSE l1
        l3 == IF l2.console_output
              THEN [l2 EXCEPT !.console_output = FALSE,
                              !.released = @ \o <<"console_output">>]
              ELSE l2
    IN [l3 EXCEPT !.state = "freed", !.struct = FALSE]

\* sandbox_initialize, lines 530-541: the wrapper after construction
sandbox_initialize(timeout_ms, console_max) ==
    [timeout_ms |-> timeout_ms,
     console_max_size |-> console_max,
     rb_http_callback |-> Qnil,
     pending_ruby_exception |-> NoExc,
     console_output_capacity |-> INITIAL_CAPACITY,
     console_alloc |-> INITIAL_CAPACITY,
     console_output |-> <<>>,
     console_output_len |-> 0,
     console_truncated |-> 0,
     start_time_ms |-> 0,
     timed_out |-> 0]

\* sandbox_set_http_callback, lines 735-742
sandbox_set_http_callback(w, callback) == [w EXCEPT !.rb_http_callback = callback]

\* the mutant measures the elapsed time from the origin of the clock
interrupt_handler_nostart(w, time) ==
    IF w.timeout_ms > 0
    THEN IF time > w.timeout_ms
         THEN [w |-> [w EXCEPT !.timed_out = 1], ret |-> 1]
         ELSE [w |-> w, ret |-> 0]
    ELSE [w |-> w, ret |-> 0]

\* interrupt_handler, lines 56-68: the wrapper and the value returned
interrupt_handler(w, time) ==
    IF w.timeout_ms > 0
    THEN LET elapsed == time - w.start_time_ms
         IN IF elapsed > w.timeout_ms
            THEN [w |-> [w EXCEPT !.timed_out = 1], ret |-> 1]
            ELSE [w |-> w, ret |-> 0]
    ELSE [w |-> w, ret |-> 0]

\* sandbox_eval, lines 588-596: the per-run state reset and the start time
sandbox_eval_reset_stale(w, time) ==
    [w EXCEPT !.console_output_len = 0, !.console_output = <<>>,
              !.console_truncated = 0, !.start_time_ms = time]

sandbox_eval_reset_noconsole(w, time) ==
    [w EXCEPT !.timed_out = 0, !.pending_ruby_exception = NoExc,
              !.start_time_ms = time]

sandbox_eval_reset(w, time) ==
    [w EXCEPT !.console_output_len = 0,
              !.console_output = <<>>,
              !.console_truncated = 0,
              !.timed_out = 0,
              !.pending_ruby_exception = NoExc,
              !.start_time_ms = time]

\* sandbox_eval, lines 613-630: which way evaluate goes once JS_Eval has
\* returned: "timeout" (614), "pending" (625 and 630), else "marshal"
sandbox_eval_check_nopending(w, is_exception) ==
    IF w.timed_out # 0 THEN "timeout" ELSE "marshal"

sandbox_eval_check(w, is_exception) ==
    IF w.timed_out # 0 THEN "timeout"
    ELSE IF is_exception /\ w.pending_ruby_exception # NoExc THEN "pending"
    ELSE "marshal"

\* sandbox_eval, lines 631-653: the pending host exception re-raised
reraise_pending(pending, co, ct) ==
    IF pending.cls \in EffectErrorClasses
    THEN Outcome("HostException", pending.cls, pending, TRUE, "deferred", HNil, <<>>, co, ct)
    ELSE Outcome("HostException", pending.cls, pending, FALSE, "deferred", HNil, <<>>, <<>>, FALSE)

\* sandbox_eval, lines 656-696: the classified script error. exception_str
\* is JS_ToCString's result, NULL when the stringification was aborted
UnknownError == <<"U">>
classify_exception(exception, interrupted, co, ct) ==
    LET null == exception.unprintable \/ (exception.scripted /\ interrupted)
        is_syntax == ~null /\ strncmp_eq(exception.str, SyntaxErrorTag, 11)
        rb_message == IF null THEN UnknownError ELSE rb_str_new2(exception.str).s
        rb_stack == IF exception.has_stack THEN rb_str_new2(exception.stack).s ELSE <<>>
    IN [Outcome(IF is_syntax THEN "SyntaxError" ELSE "JavascriptError", "", NoExc,
                FALSE, "", HNil, rb_message, co, ct) EXCEPT !.stack = rb_stack]

\* fetch(): js_fetch, lines 151-251.  target: "missing" (argc < 1),
\* "unreadable" (JS_ToCString gives NULL) or "ok"; hres: what the handler
\* does when called; call: the number of this effect call.  Gives the
\* wrapper, the handler invoked, the number of times it was invoked (calls:
\* rb_protect at line 210 is the one call site) and how the call ends: "response",
\* "TypeError", "InternalError" (script-visible errors) or "escape" (a host
\* exception raised outside rb_protect, lines 233-235).
js_fetch_noargcheck(cur, w, target, hres, call) ==
    IF cur = NULL THEN [w |-> w, invoked |-> Qnil, calls |-> 0, result |-> "TypeError"]
    ELSE IF w.rb_http_callback = Qnil
    THEN [w |-> w, invoked |-> Qnil, calls |-> 0, result |-> "TypeError"]
    ELSE IF hres.k = "raise"
    THEN [w |-> [w EXCEPT !.pending_ruby_exception = HostExc(hres.cls, call)],
          invoked |-> w.rb_http_callback, calls |-> 1, result |-> "InternalError"]
    ELSE IF ~hres.well
    THEN [w |-> w, invoked |-> w.rb_http_callback, calls |-> 1, result |-> "escape"]
    ELSE [w |-> w, invoked |-> w.rb_http_callback, calls |-> 1, result |-> "response"]

\* the mutant stores a raised exception only in an empty slot
js_fetch_keepfirst(cur, w, target, hres, call) ==
    IF cur = NULL THEN [w |-> w, invoked |-> Qnil, calls |-> 0, result |-> "TypeError"]
    ELSE IF w.rb_http_callback = Qnil
    THEN [w |-> w, invoked |-> Qnil, calls |-> 0, result |-> "TypeError"]
    ELSE IF target = "missing"
    THEN [w |-> w, invoked |-> Qnil, calls |-> 0, result |-> "TypeError"]
    ELSE IF target = "unreadable"
    THEN [w |-> w, invoked |-> Qnil, calls |-> 0, result |-> "TypeError"]
    ELSE IF hres.k = "raise"
    THEN [w |-> IF w.pending_ruby_exception = NoExc
                THEN [w EXCEPT !.pending_ruby_exception = HostExc(hres.cls, call)]
                ELSE w,
          invoked |-> w.rb_http_callback, calls |-> 1, result |-> "InternalError"]
    ELSE IF ~hres.well
    THEN [w |-> w, invoked |-> w.rb_http_callback, calls |-> 1, result |-> "escape"]
    ELSE [w |-> w, invoked |-> w.rb_http_callback, calls |-> 1, result |-> "response"]

\* the mutant invokes the handler a second time when it raised
js_fetch_retry(cur, w, target, hres, call) ==
    IF cur = NULL THEN [w |-> w, invoked |-> Qnil, calls |-> 0, result |-> "TypeError"]
    ELSE IF w.rb_http_callback = Qnil
    THEN [w |-> w, invoked |-> Qnil, calls |-> 0, result |-> "TypeError"]
    ELSE IF target = "missing"
    THEN [w |-> w, invoked |-> Qnil, calls |-> 0, result |-> "TypeError"]
    ELSE IF target = "unreadable"
    THEN [w |-> w, invoked |-> Qnil, calls |-> 0, result |-> "TypeError"]
    ELSE IF hres.k = "raise"
    THEN [w |-> [w EXCEPT !.pending_ruby_exception = HostExc(hres.cls, call)],
          invoked |-> w.rb_http_callback, calls |-> 2, result |-> "InternalError"]
    ELSE IF ~hres.well
    THEN [w |-> w, invoked |-> w.rb_http_callback, calls |-> 1, result |-> "escape"]
    ELSE [w |-> w, invoked |-> w.rb_http_callback, calls |-> 1, result |-> "response"]

js_fetch(cur, w, target, hres, call) ==
    IF cur = NULL THEN [w |-> w, invoked |-> Qnil, calls |-> 0, result |-> "TypeError"]
    ELSE IF w.rb_http_callback = Qnil
    THEN [w |-> w, invoked |-> Qnil, calls |-> 0, result |-> "TypeError"]
    ELSE IF target = "missing"
    THEN [w |-> w, invoked |-> Qnil, calls |-> 0, result |-> "TypeError"]
    ELSE IF target = "unreadable"
    THEN [w |-> w, invoked |-> Qnil, calls |-> 0, result |-> "TypeError"]
    ELSE IF hres.k = "raise"
    THEN [w |-> [w EXCEPT !.pending_ruby_exception = HostExc(hres.cls, call)],
          invoked |-> w.rb_http_callback, calls |-> 1, result |-> "InternalError"]
    ELSE IF ~hres.well
    THEN [w |-> w, invoked |-> w.rb_http_callback, calls |-> 1, result |-> "escape"]
    ELSE [w |-> w, invoked |-> w.rb_http_callback, calls |-> 1, result |-> "response"]

\* what the registered handler does when called: returns a response whose
\* fields convert (well) or do not, or raises
HandlerResults ==
    {[k |-> "response", well |-> TRUE, cls |-> ""],
     [k |-> "response", well |-> FALSE, cls |-> ""]}
    \cup {[k |-> "raise", well |-> FALSE, cls |-> c] : c \in HandlerRaises}

Targets == {"missing", "unreadable", "ok"}
Handlers == {"h1", "h2"}

---------------------------------------------------------------------------
(* Inputs of the console calls *)

Arg(s) == [null |-> FALSE, cstr |-> s]
NullArg == [null |-> TRUE, cstr |-> <<>>]

\* console.log("a"): the console call of the scripts that also use fetch()
ControlArgLists == { <<Arg(<<"a">>)>> }

\* console.log(), console.log("a"), console.log("a", "b"), a line that
\* fills the initial capacity exactly, and an argument JS_ToCString rejects
ConsoleArgLists ==
    { <<>>,
      <<Arg(<<"a">>)>>,
      <<Arg(<<"a">>), Arg(<<"b">>)>>,
      <<Arg(Repeat("x", INITIAL_CAPACITY - 1))>>,
      <<NullArg>> }

\* console.log("a\0b"): a string that holds a NUL byte
LineArgLists == ConsoleArgLists \cup { <<Arg(<<"a", NUL, "b">>)>> }

\* the line of one console call: the stringified arguments joined by single
\* spaces (an argument JS_ToCString rejects gives no bytes)
RECURSIVE JoinArgs(_, _)
JoinArgs(args, i) ==
    IF i > Len(args) THEN <<>>
    ELSE (IF i > 1 THEN <<" ">> ELSE <<>>) \o args[i].cstr \o JoinArgs(args, i + 1)

\* append calls of the longest console call above
MaxPieces ==
    CHOOSE n \in 1..8 :
        /\ \A args \in ConsoleArgLists : Len(ConsolePieces(args, 1)) <= n
        /\ \E args \in ConsoleArgLists : Len(ConsolePieces(args, 1)) = n

RECURSIVE SumLen(_)
SumLen(pieces) == IF pieces = <<>> THEN 0 ELSE strlen(Head(pieces)) + SumLen(Tail(pieces))

---------------------------------------------------------------------------
(* Values a script throws *)

\* an Error and a SyntaxError thrown at run time, both with a stack; the
\* strings "SyntaxError", "SyntaxErro", "SyntaxErrox" and ""; an object
\* without stack; an object whose toString throws; the engine's out of
\* memory error
ThrownShapes ==
    {ThrownObject(ErrorTag \o <<":", " ", "x">>, FALSE, <<"s">>),
     ThrownObject(SyntaxErrorTag \o <<":", " ", "x">>, FALSE, <<"s">>),
     Thrown(SyntaxErrorTag, FALSE, FALSE),
     Thrown(SubSeq(SyntaxErrorTag, 1, 10), FALSE, FALSE),
     Thrown(SubSeq(SyntaxErrorTag, 1, 10) \o <<"x">>, FALSE, FALSE),
     Thrown(<<>>, FALSE, FALSE),
     Thrown(<<"o">>, FALSE, FALSE),
     ThrownObject(<<>>, TRUE, <<>>),
     ThrownObject(InternalErrorTag \o <<":", " ", "o">>, FALSE, <<>>)}

---------------------------------------------------------------------------
(* Values a script evaluates to *)

\* null, undefined, both booleans, 1, 1.5, 2^62, "a", two arrays, two plain
\* objects, two functions (one with an enumerable property) and a symbol
JSShapes ==
    {JS_NULL, JS_UNDEFINED, JSBool(TRUE), JSBool(FALSE),
     JSNumber(FALSE, <<1>>, <<>>), JSNumber(FALSE, <<1>>, <<1>>),
     JSNumber(FALSE, Pow2(FIXNUM_BITS), <<>>),
     JSString(<<"a">>),
     JSArray(<<>>), JSArray(<<JSNumber(FALSE, <<1>>, <<>>), JS_NULL>>),
     JSObject(<<>>), JSObject(<<JSProp(<<"k">>, JSString(<<"a">>))>>),
     JSFunction(<<>>), JSFunction(<<JSProp(<<"k">>, JSBool(TRUE))>>),
     JSSymbol}

---------------------------------------------------------------------------
(* Inputs of set_variable *)

\* the mutant does not test the name
sandbox_set_variable_anyname(props, name, value) ==
    LET js_val == ruby_to_js(value)
    IN IF js_val.t = "raise"
       THEN [props |-> props, ret |-> js_val.cls, marshalled |-> TRUE]
       ELSE [props |-> JS_SetPropertyStr(props, name, js_val), ret |-> Qnil,
             marshalled |-> TRUE]

\* sandbox_set_variable, lines 714-732: the global object's properties,
\* what the call returns, Qnil or the class of the exception raised, and
\* whether ruby_to_js was called
sandbox_set_variable(props, name, value) ==
    IF HasNul(name) \/ strlen(name) = 0
    THEN [props |-> props, ret |-> "ArgumentError", marshalled |-> FALSE]
    ELSE LET js_val == ruby_to_js(value)
         IN IF js_val.t = "raise"
            THEN [props |-> props, ret |-> js_val.cls, marshalled |-> TRUE]
            ELSE [props |-> JS_SetPropertyStr(props, name, js_val), ret |-> Qnil,
                  marshalled |-> TRUE]

\* 2^53 + 1, the first integer a double does not hold
AboveDouble == Pow2(DBL_MANT_DIG - 1) \o <<1>>

\* leaves: nil, true, 0, 1, -1, 2^53 + 1, FIXNUM_MAX, 1.5, 2.0, "a", "a\0b"
HostLeaves ==
    {HNil, HBool(TRUE), HInt(FALSE, <<>>), HInt(FALSE, <<1>>), HInt(TRUE, <<1>>),
     HInt(FALSE, AboveDouble), HInt(FALSE, Ones(FIXNUM_BITS)),
     HFloat(FALSE, <<1>>, <<1>>), HFloat(FALSE, <<1, 0>>, <<>>),
     HStr(<<"a">>), HStr(<<"a", NUL, "b">>)}

\* values of a mapping: the leaves, a sequence and a nested mapping
HostValues ==
    HostLeaves \cup {HAry(<<>>), HAry(<<HInt(FALSE, <<1>>), HStr(<<"a">>)>>),
                     HHash(<<[k |-> HStr(<<"a">>), v |-> HNil]>>)}

HostKeys == {HStr(<<"a">>), HStr(<<"b">>), HStr(<<"1">>)}

\* mappings with string keys: one entry of every value, two entries of every
\* two keys in both orders
HostMappings ==
    {HHash(<<[k |-> HStr(<<"a">>), v |-> v1]>>) : v1 \in HostValues}
    \cup {HHash(<<[k |-> ks[1], v |-> HInt(FALSE, <<1>>)], [k |-> ks[2], v |-> v2]>>) :
              ks \in {p \in HostKeys \X HostKeys : p[1] # p[2]},
              v2 \in {HNil, HStr(<<"a">>)}}

GlobalNames == {<<>>, <<"g">>}

\* values given to set_variable: the mappings, and nil, 1 and "a\0b"
SetValues ==
    HostMappings \cup {HNil, HInt(FALSE, <<1>>), HStr(<<"a", NUL, "b">>)}

---------------------------------------------------------------------------
(* The state machine *)

\* the state of every part but the engine resources when the constructor returns
Constructed ==
    /\ wrapper \in {sandbox_initialize(t, m) : t \in TimeoutChoices, m \in ConsoleMaxChoices}
    /\ current_wrapper = NULL
    /\ now = 0
    /\ pc = "idle"
    /\ script = NoScript
    /\ thrown = NoThrown
    /\ frame = NoFrame
    /\ outcome = NoOutcome
    /\ engine_ok = TRUE
    /\ registered = Qnil
    /\ run = NoRun
    /\ eff = NoEff
    /\ nevals = 0
    /\ globals = <<>>
    /\ lastset = NoSet
    /\ other = sandbox_initialize(0, INITIAL_CAPACITY)

Init ==
    /\ Constructed
    /\ life = sandbox_initialize_resources(sandbox_alloc, TRUE, TRUE, TRUE)

\* the engine is executing script code: inside JS_Eval, or in an accessor
\* or toString that marshalling the result runs (lines 327, 658, 677)
InScript ==
    \/ pc = "running" /\ ~thrown.set
    \/ pc = "marshal" /\ ~frame.interrupted
          /\ (frame.exception.scripted \/ HasAccessor(frame.result))

\* http_callback= (sandbox_set_http_callback); the caller has taken the
\* last evaluation's outcome by then, and the histories start afresh
SetHttpCallback(callback) ==
    /\ pc = "idle"
    /\ wrapper' = sandbox_set_http_callback(wrapper, callback)
    /\ registered' = callback
    /\ outcome' = NoOutcome
    /\ run' = NoRun
    /\ eff' = NoEff
    /\ UNCHANGED <<current_wrapper, now, pc, script, thrown, frame,
                   engine_ok, nevals,
                   globals, lastset, life, other>>

\* the monotonic clock advances while script code runs
Tick ==
    /\ InScript
    /\ now < MaxClock
    /\ now' = now + 1
    /\ UNCHANGED <<wrapper, current_wrapper, pc, script, thrown, frame, outcome,
                   engine_ok, registered, run, eff, nevals,
                   globals, lastset, life, other>>

\* sandbox_eval up to the call of JS_Eval, lines 584-604.  code_ok: whether
\* StringValueCStr(code) returns (line 602); it raises otherwise.
EvalBegin(code_ok, scr) ==
    /\ pc = "idle"
    /\ engine_ok
    /\ nevals < MaxEvals
    /\ now + wrapper.timeout_ms < MaxClock
    /\ wrapper' = sandbox_eval_reset(wrapper, now)
    /\ current_wrapper' = "w"
    /\ nevals' = nevals + 1
    /\ eff' = NoEff
    /\ frame' = NoFrame
    /\ IF code_ok
       THEN /\ pc' = "running"
            /\ script' = scr
            /\ thrown' = IF scr.syntax_ok THEN NoThrown ELSE SyntaxFailure
            /\ outcome' = NoOutcome
            /\ run' = [NoRun EXCEPT
                          !.loops = scr.loops,
                          !.reads = scr.reads,
                          !.started = now,
                          !.js_evals = 1,
                          !.stale = wrapper.timed_out # 0
                                    \/ wrapper.pending_ruby_exception # NoExc,
                          !.dirty = wrapper.console_output_len > 0
                                    \/ wrapper.console_truncated # 0]
       ELSE /\ pc' = "idle"
            /\ script' = NoScript
            /\ thrown' = NoThrown
            /\ outcome' = Outcome("HostException", "TypeError", NoExc, FALSE, "source",
                                  HNil, <<>>, <<>>, FALSE)
            /\ run' = NoRun
    /\ UNCHANGED <<now, engine_ok, registered, globals, lastset, life, other>>

\* the engine polls the interrupt hook (JS_SetInterruptHandler, line 549)
InterruptPoll ==
    /\ InScript
    /\ LET r == interrupt_handler(wrapper, now)
       IN /\ wrapper' = r.w
          /\ run' = [run EXCEPT !.hook_fired = @ \/ r.ret = 1]
          /\ thrown' = IF r.ret = 1 /\ pc = "running" THEN Interrupted ELSE thrown
          /\ frame' = IF r.ret = 1 /\ pc = "marshal"
                      THEN [frame EXCEPT !.interrupted = TRUE] ELSE frame
    /\ UNCHANGED <<current_wrapper, now, pc, script, outcome, engine_ok,
                   registered, eff, nevals,
                   globals, lastset, life, other>>

\* the script calls console.log, console.warn or console.error
ConsoleLog(args, oks) ==
    /\ pc = "running"
    /\ ~thrown.set
    /\ run.steps < MaxSteps
    /\ wrapper' = IF current_wrapper = NULL THEN wrapper
                  ELSE js_console_log(wrapper, args, oks)
    /\ run' = [run EXCEPT !.steps = @ + 1,
                          !.attempted = @ + SumLen(ConsolePieces(args, 1)),
                          !.lines = @ \o JoinArgs(args, 1) \o <<"\n">>,
                          !.copied = @ \o SubSeq(wrapper'.console_output,
                                                 wrapper.console_output_len + 1,
                                                 wrapper'.console_output_len)]
    /\ UNCHANGED <<current_wrapper, now, pc, script, thrown, frame, outcome,
                   engine_ok, registered, eff, nevals,
                   globals, lastset, life, other>>

\* the script calls fetch(); caught: whether the script catches the error
\* the call throws (a script that never ends by itself catches it)
Fetch(target, hres, caught) ==
    /\ pc = "running"
    /\ ~thrown.set
    /\ run.steps < MaxSteps
    /\ script.loops => caught
    /\ LET call == run.nfetch + 1
           r == js_fetch(current_wrapper, wrapper, target, hres, call)
           raised == r.invoked # Qnil /\ hres.k = "raise"
       IN /\ wrapper' = r.w
          /\ eff' = [n |-> call, cb |-> wrapper.rb_http_callback, target |-> target,
                     invoked |-> r.invoked, calls |-> r.calls,
                     result |-> r.result,
                     pending_before |-> wrapper.pending_ruby_exception,
                     pending_after |-> r.w.pending_ruby_exception]
          /\ run' = [run EXCEPT !.steps = @ + 1, !.nfetch = call,
                                !.raised = IF raised THEN @ \cup {HostExc(hres.cls, call)}
                                           ELSE @]
          /\ IF r.result = "escape"
             THEN \* NUM2INT or StringValueCStr raises through JS_Eval and sandbox_eval
                  /\ pc' = "idle"
                  /\ engine_ok' = FALSE
                  /\ script' = NoScript
                  /\ thrown' = NoThrown
                  /\ outcome' = Outcome("HostException", "TypeError", NoExc, FALSE,
                                        "escaped", HNil, <<>>, <<>>, FALSE)
             ELSE /\ thrown' = IF r.result = "response" \/ caught THEN thrown
                               ELSE IF r.result = "TypeError" THEN FetchTypeError
                               ELSE FetchInternalError
                  /\ UNCHANGED <<pc, engine_ok, script, outcome>>
    /\ UNCHANGED <<current_wrapper, now, frame, registered, nevals,
                   globals, lastset, life, other>>

\* the script throws a value and does not catch it
ScriptThrow(v) ==
    /\ pc = "running"
    /\ ~thrown.set
    /\ ~script.loops
    /\ thrown' = v
    /\ UNCHANGED <<wrapper, current_wrapper, now, pc, script, frame, outcome,
                   engine_ok, registered, run, eff, nevals,
                   globals, lastset, life, other>>

\* JS_Eval returns, with the value v or with the exception in flight;
\* sandbox_eval lines 603-654
EngineReturn(v) ==
    /\ pc = "running"
    /\ thrown.set \/ ~script.loops
    /\ LET is_exception == thrown.set
           co == SubSeq(wrapper.console_output, 1, wrapper.console_output_len)
           ct == wrapper.console_truncated # 0
           way == sandbox_eval_check(wrapper, is_exception)
       IN /\ current_wrapper' = NULL
          /\ run' = [run EXCEPT !.threw = is_exception,
                                !.deferred = wrapper.pending_ruby_exception,
                                !.result = IF is_exception THEN JS_EXCEPTION ELSE v,
                                !.exception = thrown]
          /\ script' = NoScript
          /\ thrown' = NoThrown
          /\ CASE way = "timeout" ->
                    /\ outcome' = Outcome("TimeoutError", "", NoExc, FALSE, "", HNil,
                                          <<>>, co, ct)
                    /\ pc' = "idle"
                    /\ UNCHANGED <<wrapper, frame>>
               [] way = "pending" ->
                    /\ outcome' = reraise_pending(wrapper.pending_ruby_exception, co, ct)
                    /\ wrapper' = [wrapper EXCEPT !.pending_ruby_exception = NoExc]
                    /\ pc' = "idle"
                    /\ UNCHANGED frame
               [] OTHER ->
                    /\ frame' = [result |-> IF is_exception THEN JS_EXCEPTION ELSE v,
                                 exception |-> thrown,
                                 console_output |-> co,
                                 console_truncated |-> ct,
                                 interrupted |-> FALSE]
                    /\ pc' = "marshal"
                    /\ UNCHANGED <<wrapper, outcome>>
    /\ UNCHANGED <<now, engine_ok, registered, eff, nevals,
                   globals, lastset, life, other>>

\* sandbox_eval lines 656-711: the classified script error, or the Result
EvalFinish ==
    /\ pc = "marshal"
    /\ outcome' = IF frame.result = JS_EXCEPTION
                  THEN classify_exception(frame.exception, frame.interrupted,
                                          frame.console_output, frame.console_truncated)
                  ELSE Outcome("Result", "", NoExc, FALSE, "",
                               js_to_ruby(frame.interrupted, frame.result), <<>>,
                               frame.console_output, frame.console_truncated)
    /\ pc' = "idle"
    /\ frame' = NoFrame
    /\ UNCHANGED <<wrapper, current_wrapper, now, script, thrown, engine_ok,
                   registered, run, eff, nevals,
                   globals, lastset, life, other>>

\* set_variable(name, value); the caller has taken the last evaluation's
\* outcome by then
SetVariable(name, value) ==
    /\ pc = "idle"
    /\ engine_ok
    /\ LET r == sandbox_set_variable(globals, name, value)
       IN /\ globals' = r.props
          /\ lastset' = [ret |-> r.ret, name |-> name, value |-> value,
                         marshalled |-> r.marshalled]
    /\ outcome' = NoOutcome
    /\ run' = NoRun
    /\ eff' = NoEff
    /\ UNCHANGED <<wrapper, current_wrapper, now, pc, script, thrown, frame,
                   engine_ok, registered, nevals, life, other>>

Next ==
    \/ \E callback \in {Qnil} \cup Handlers : SetHttpCallback(callback)
    \/ Tick
    \/ \E code_ok \in BOOLEAN, scr \in Scripts : EvalBegin(code_ok, scr)
    \/ InterruptPoll
    \/ \E args \in ControlArgLists : ConsoleLog(args, [j \in 1..MaxPieces |-> TRUE])
    \/ \E target \in Targets, hres \in HandlerResults, caught \in BOOLEAN :
          Fetch(target, hres, caught)
    \/ \E v \in ScriptThrows : ScriptThrow(v)
    \/ \E v \in ScriptResults : EngineReturn(v)
    \/ EvalFinish

Spec == Init /\ [][Next]_vars

\* The console surface alone: the evaluations of scripts that only write to
\* the console, with every console input and every answer of realloc
NextConsole ==
    \/ \E code_ok \in BOOLEAN, scr \in Scripts : EvalBegin(code_ok, scr)
    \/ \E args \in ConsoleArgLists, oks \in [1..MaxPieces -> BOOLEAN] : ConsoleLog(args, oks)
    \/ \E v \in ScriptThrows : ScriptThrow(v)
    \/ \E v \in ScriptResults : EngineReturn(v)
    \/ EvalFinish

SpecConsole == Init /\ [][NextConsole]_vars

\* The value bridge alone: set_variable of a mapping, then the evaluation of
\* the expression that is the global's name
NextRT ==
    \/ \E name \in GlobalNames, value \in SetValues : SetVariable(name, value)
    \/ \E i \in 1..Len(globals) : EvalBegin(TRUE, ReadScript(globals[i].k))
    \/ \E i \in 1..Len(globals) : script.reads = globals[i].k /\ EngineReturn(globals[i].v)
    \/ EvalFinish

SpecRT == Init /\ [][NextRT]_vars

\* The value bridge, script to host: the evaluations of scripts that are an
\* expression of every shape of value
NextJS ==
    \/ EvalBegin(TRUE, NoScript)
    \/ \E v \in JSShapes : EngineReturn(v)
    \/ EvalFinish

SpecJS == Init /\ [][NextJS]_vars

\* The lines of the console: the evaluations of scripts that only write to
\* the console, every growth of the buffer succeeding
NextLines ==
    \/ \E scr \in Scripts : EvalBegin(TRUE, scr)
    \/ \E args \in LineArgLists : ConsoleLog(args, [j \in 1..MaxPieces |-> TRUE])
    \/ \E v \in ScriptThrows : ScriptThrow(v)
    \/ \E v \in ScriptResults : EngineReturn(v)
    \/ EvalFinish

SpecLines == Init /\ [][NextLines]_vars

---------------------------------------------------------------------------
(* The lifetime of an instance: allocation, construction, use, collection *)

\* NativeSandbox.new after sandbox_alloc: sandbox_initialize runs once
Initialize(opts_ok, rt_ok, ctx_ok) ==
    /\ life.state = "allocated"
    /\ life' = sandbox_initialize_resources(life, opts_ok, rt_ok, ctx_ok)
    /\ UNCHANGED <<wrapper, current_wrapper, now, pc, script, thrown, frame, outcome,
                   engine_ok, registered, run, eff, nevals, globals, lastset, other>>

\* the collector runs the type's free function (line 508) once on an object
\* that is no longer referenced, so never during one of its own calls
Free ==
    /\ pc = "idle"
    /\ life.struct
    /\ life' = sandbox_free(life)
    /\ UNCHANGED <<wrapper, current_wrapper, now, pc, script, thrown, frame, outcome,
                   engine_ok, registered, run, eff, nevals, globals, lastset, other>>

InitLife ==
    /\ Constructed
    /\ life = sandbox_alloc

NextLife ==
    \/ \E opts_ok \in BOOLEAN, rt_ok \in BOOLEAN, ctx_ok \in BOOLEAN :
          Initialize(opts_ok, rt_ok, ctx_ok)
    \/ Free
    \/ life.state = "ready" /\ \E scr \in Scripts : EvalBegin(TRUE, scr)
    \/ life.state = "ready"
       /\ \E args \in ControlArgLists : ConsoleLog(args, [j \in 1..MaxPieces |-> TRUE])
    \/ life.state = "ready" /\ \E v \in ScriptThrows : ScriptThrow(v)
    \/ life.state = "ready" /\ \E v \in ScriptResults : EngineReturn(v)
    \/ life.state = "ready" /\ EvalFinish

SpecLife == InitLife /\ [][NextLife]_vars

---------------------------------------------------------------------------
(* Two instances on one thread: a handler that evaluates on the other one *)

\* sandbox_eval (lines 584-607) of another instance b, called by the effect
\* handler of the instance that is evaluating and run to completion: the
\* reset and the start time (588-596), current_wrapper set to b (599), b's
\* script calling console.log(args), which js_console_log routes to the
\* instance current_wrapper names (115), and current_wrapper cleared (607).
\* Gives both wrappers and the binding left behind.
sandbox_eval_nested(a, b, time, args) ==
    LET b0 == sandbox_eval_reset(b, time)
        cur == "b"
        oks == [j \in 1..MaxPieces |-> TRUE]
    IN [a |-> IF cur = "w" THEN js_console_log(a, args, oks) ELSE a,
        b |-> IF cur = "b" THEN js_console_log(b0, args, oks) ELSE b0,
        cur |-> NULL]

\* the script calls fetch() with a target; the registered handler runs a
\* complete evaluate call on the other instance and returns a well-formed
\* response (js_fetch, lines 151-251, with lines 584-711 inside line 210)
FetchNested(args) ==
    /\ pc = "running"
    /\ ~thrown.set
    /\ ~script.loops
    /\ run.steps < MaxSteps
    /\ current_wrapper # NULL
    /\ wrapper.rb_http_callback # Qnil
    /\ LET call == run.nfetch + 1
           n == sandbox_eval_nested(wrapper, other, now, args)
           r == js_fetch(current_wrapper, n.a, "ok",
                         [k |-> "response", well |-> TRUE, cls |-> ""], call)
       IN /\ wrapper' = r.w
          /\ other' = n.b
          /\ current_wrapper' = n.cur
          /\ eff' = [n |-> call, cb |-> wrapper.rb_http_callback, target |-> "ok",
                     invoked |-> r.invoked, calls |-> r.calls,
                     result |-> r.result,
                     pending_before |-> wrapper.pending_ruby_exception,
                     pending_after |-> r.w.pending_ruby_exception]
          /\ run' = [run EXCEPT !.steps = @ + 1, !.nfetch = call]
    /\ UNCHANGED <<now, pc, script, thrown, frame, outcome, engine_ok, registered,
                   nevals, globals, lastset, life>>

NextNested ==
    \/ \E callback \in Handlers : SetHttpCallback(callback)
    \/ EvalBegin(TRUE, NoScript)
    \/ \E args \in ControlArgLists : ConsoleLog(args, [j \in 1..MaxPieces |-> TRUE])
    \/ \E caught \in BOOLEAN :
          Fetch("ok", [k |-> "response", well |-> TRUE, cls |-> ""], caught)
    \/ \E args \in ControlArgLists : FetchNested(args)
    \/ \E v \in ScriptResults : EngineReturn(v)
    \/ EvalFinish

SpecNested == Init /\ [][NextNested]_vars

\* The classification of script errors: the evaluations of scripts that
\* write to the console and throw, or do not compile
NextThrow ==
    \/ \E scr \in Scripts : EvalBegin(TRUE, scr)
    \/ \E args \in ControlArgLists : ConsoleLog(args, [j \in 1..MaxPieces |-> TRUE])
    \/ \E v \in ThrownShapes : ScriptThrow(v)
    \/ \E v \in ScriptResults : EngineReturn(v)
    \/ EvalFinish

SpecThrow == Init /\ [][NextThrow]_vars

---------------------------------------------------------------------------
(* Properties *)

\* an evaluate call has ended and its outcome has not been taken yet
Ended == pc = "idle" /\ outcome.kind # "none"

\* the bytes of the console buffer, console_output[0 .. console_output_len)
Captured == SubSeq(wrapper.console_output, 1, wrapper.console_output_len)

\* C1: whenever the interrupt hook has set timed_out during an evaluate call,
\* the call raises TimeoutError carrying the console output captured so far,
\* whether or not a script value was thrown or a host exception was deferred.
C1_TimeoutPreempts ==
    (Ended /\ wrapper.timed_out # 0) =>
        /\ outcome.kind = "TimeoutError"
        /\ outcome.console_output = Captured

\* C2: in an evaluation that does not time out, a host exception raised by
\* the effect handler is the exception evaluate raises (rebuilt with the
\* console output when its class is one of the three reserved ones),
\* whatever the script does with the script-visible error.
C2_HandlerExceptionRaised ==
    (Ended /\ engine_ok /\ wrapper.timed_out = 0 /\ run.raised # {}) =>
        /\ outcome.kind = "HostException"
        /\ outcome.origin = "deferred"
        /\ outcome.exc \in run.raised
        /\ outcome.rebuilt <=> outcome.cls \in EffectErrorClasses

\* C3: when JS_Eval returned an exception and a host exception was deferred
\* in the same run, evaluate raises the deferred host exception, never a
\* SyntaxError or JavascriptError; when timed_out is set it raises
\* TimeoutError instead.
C3_DeferredPreemptsScriptFault ==
    (Ended /\ run.threw /\ run.deferred # NoExc) =>
        IF wrapper.timed_out # 0
        THEN outcome.kind = "TimeoutError"
        ELSE /\ outcome.kind = "HostException"
             /\ outcome.origin = "deferred"
             /\ outcome.exc = run.deferred
             /\ outcome.rebuilt <=> outcome.cls \in EffectErrorClasses
             /\ outcome.rebuilt => outcome.console_output = Captured

\* a script error and a deferred reserved-class exception in one run: the
\* rebuilt host exception is what evaluate raised
C3_Witness ==
    /\ Ended /\ run.threw /\ run.deferred # NoExc /\ wrapper.timed_out = 0
    /\ outcome.kind = "HostException" /\ outcome.rebuilt
    /\ outcome.console_output # <<>>

\* C4: with timeout_ms > 0 an evaluate call of a script that never ends by
\* itself leaves the Running state only by raising TimeoutError.
C4_LoopEndsInTimeout ==
    (Ended /\ run.loops /\ wrapper.timeout_ms > 0) => outcome.kind = "TimeoutError"

C6_ConsoleBounded ==
    /\ wrapper.console_output_len <= wrapper.console_max_size
    /\ Len(wrapper.console_output) = wrapper.console_output_len
    /\ Len(frame.console_output) <= wrapper.console_max_size
    /\ Len(outcome.console_output) <= wrapper.console_max_size

\* the buffer has grown past its initial capacity and an append was clipped
\* at the ceiling
C6_Witness ==
    /\ wrapper.console_max_size > INITIAL_CAPACITY
    /\ wrapper.console_output_len = wrapper.console_max_size
    /\ wrapper.console_truncated # 0
    /\ run.attempted > wrapper.console_max_size

\* C7: console_truncated is set if and only if the console calls of the
\* evaluation tried to append more than console_max_size bytes, and no byte
\* is dropped without the flag being set, a failed growth included.
C7_TruncatedIffDropped ==
    (pc # "idle" \/ outcome.kind # "none") =>
        /\ (wrapper.console_truncated # 0) <=> (run.attempted > wrapper.console_max_size)
        /\ (run.attempted > wrapper.console_output_len) => wrapper.console_truncated # 0

\* C8: the console output and truncation flag of an evaluate call reflect
\* only the console calls made during that call.
C8_ConsolePerEvaluation ==
    /\ pc = "running" =>
          /\ Captured = run.copied
          /\ wrapper.console_truncated # 0 => run.attempted > wrapper.console_max_size
    /\ (Ended /\ outcome.kind \in {"Result", "TimeoutError", "SyntaxError", "JavascriptError"}) =>
          /\ outcome.console_output = run.copied
          /\ outcome.console_truncated => run.attempted > wrapper.console_max_size

\* a call that began with console output and the truncation flag left behind
\* returned one line of its own, not truncated
C8_Witness ==
    /\ Ended /\ run.dirty /\ outcome.kind = "Result"
    /\ outcome.console_output = <<"a", "\n">>
    /\ ~outcome.console_truncated

\* C9 as stated: a handler is invoked only when one is registered and a
\* target is present, it is the one registered last, and a rejected call
\* raises a script-visible error, invokes no handler and leaves the deferred
\* exception slot empty.
C9_RejectedLeavesSlotEmpty ==
    eff.n > 0 =>
        /\ eff.invoked # Qnil =>
              /\ registered # Qnil
              /\ eff.target # "missing"
              /\ eff.invoked = registered
        /\ (registered = Qnil \/ eff.target = "missing") =>
              /\ eff.result = "TypeError"
              /\ eff.invoked = Qnil
              /\ eff.pending_after = NoExc

\* C9 amended: a rejected call leaves the deferred exception slot as it
\* found it (an earlier failed call of the same evaluation may have filled
\* it); the rest as stated.
C9_RejectedLeavesSlotUnchanged ==
    eff.n > 0 =>
        /\ eff.invoked # Qnil =>
              /\ registered # Qnil
              /\ eff.target # "missing"
              /\ eff.invoked = registered
        /\ (registered = Qnil \/ eff.target = "missing") =>
              /\ eff.result = "TypeError"
              /\ eff.invoked = Qnil
              /\ eff.pending_after = eff.pending_before

\* a call without target, after an earlier call of the same evaluation
\* whose handler raised
C9_Witness ==
    /\ eff.n > 1 /\ eff.target = "missing" /\ registered \in Handlers
    /\ eff.result = "TypeError" /\ eff.invoked = Qnil
    /\ eff.pending_before # NoExc

\* structural equality of host values: same keys in the same order, same
\* lengths and element order, equal leaves, except that an integer-valued
\* float may have become the integer
RECURSIVE StructEq(_, _)
StructEq(a, b) ==
    CASE a.t = "float" ->
            b = a \/ (a.frac = <<>> /\ b = HInt(a.neg /\ a.int # <<>>, a.int))
      [] a.t = "ary" ->
            /\ b.t = "ary"
            /\ Len(b.e) = Len(a.e)
            /\ \A i \in 1..Len(a.e) : StructEq(a.e[i], b.e[i])
      [] a.t = "hash" ->
            /\ b.t = "hash"
            /\ Len(b.kv) = Len(a.kv)
            /\ \A i \in 1..Len(a.kv) :
                  b.kv[i].k = a.kv[i].k /\ StructEq(a.kv[i].v, b.kv[i].v)
      [] OTHER -> b = a

\* C10: for a host mapping with string keys and values that are nil,
\* booleans, integers, floats, strings or nested sequences and mappings,
\* set_variable followed by the evaluation of the global's name gives a
\* structurally equal value.
C10_RoundTrip ==
    /\ (lastset.ret # "" /\ lastset.name # <<>> /\ lastset.value \in HostMappings)
          => lastset.ret = Qnil
    /\ (Ended /\ outcome.kind = "Result" /\ lastset.ret = Qnil /\ run.reads = lastset.name
           /\ lastset.value \in HostMappings)
          => StructEq(lastset.value, outcome.value)

\* the host variant the design gives each shape of script value
HostVariants(val) ==
    CASE val.t \in {"null", "undefined"} -> {"nil"}
      [] val.t = "bool" -> {"bool"}
      [] val.t = "number" -> {"int", "float"}
      [] val.t = "string" -> {"str"}
      [] val.t = "array" -> {"ary"}
      [] val.t = "object" -> {"hash"}
      [] OTHER -> {"nil"}

\* C11: the conversion of a script value gives nil for null and undefined,
\* a boolean for a boolean, an integer or a float for a number, a string
\* for a string, a sequence for an array, a mapping for a plain object and
\* nil for everything else; a function never gives a mapping.
C11_OneVariantPerShape ==
    (Ended /\ outcome.kind = "Result") =>
        /\ outcome.value.t \in HostVariants(run.result)
        /\ run.result.t = "function" => outcome.value.t # "hash"

\* tag is a prefix of s
IsPrefix(tag, s) == Len(s) >= Len(tag) /\ \A i \in 1..Len(tag) : s[i] = tag[i]

\* C12: an evaluation that ends with a thrown value, no timeout and no
\* deferred host exception raises SyntaxError if the stringified value
\* begins with "SyntaxError" and JavascriptError otherwise, with the message,
\* the stack (empty if there is none), the console output and the
\* truncation flag, and raises no other kind of error.
C12_ClassifiedScriptError ==
    (Ended /\ run.threw /\ wrapper.timed_out = 0 /\ run.deferred = NoExc) =>
        /\ outcome.kind \in {"SyntaxError", "JavascriptError"}
        /\ outcome.kind = "SyntaxError" <=>
              (~run.exception.unprintable /\ IsPrefix(SyntaxErrorTag, run.exception.str))
        /\ ~run.exception.unprintable => outcome.message = run.exception.str
        /\ outcome.stack = IF run.exception.has_stack THEN run.exception.stack ELSE <<>>
        /\ outcome.console_output = Captured
        /\ outcome.console_truncated <=> wrapper.console_truncated # 0

\* a string that begins with the tag was thrown after a console call, and
\* SyntaxError carries the console output
C12_Witness ==
    /\ Ended /\ run.threw /\ wrapper.timed_out = 0 /\ run.deferred = NoExc
    /\ run.exception.str = SyntaxErrorTag
    /\ outcome.kind = "SyntaxError"
    /\ outcome.console_output # <<>>

\* C13: set_variable with an empty name raises ArgumentError for every
\* value, before the value is marshalled, and leaves the globals of the
\* script and the state of the instance as they were.
C13_EmptyNameRejected ==
    [][(lastset' # lastset /\ lastset'.name = <<>>) =>
          /\ lastset'.ret = "ArgumentError"
          /\ ~lastset'.marshalled
          /\ UNCHANGED <<globals, wrapper, current_wrapper, registered, engine_ok,
                         pc, now, nevals>>]_vars

\* the call with an empty name was made with a value whose marshalling
\* raises, after a global had been set
C13_Witness ==
    /\ lastset.name = <<>> /\ lastset.ret = "ArgumentError"
    /\ lastset.value = HStr(<<"a", NUL, "b">>)
    /\ globals # <<>>

\* C14: the console output of an evaluation is the concatenation, in call
\* order, of one line per console call, the stringified arguments joined by
\* single spaces and followed by a newline, clipped to the first
\* console_max_size bytes; the value is the one the script evaluates to.
C14_ConsoleLines ==
    (Ended /\ outcome.kind \in {"Result", "SyntaxError", "JavascriptError"}) =>
        /\ outcome.console_output =
              SubSeq(run.lines, 1, Min(Len(run.lines), wrapper.console_max_size))
        /\ outcome.kind = "Result" => outcome.value = js_to_ruby(FALSE, run.result)

\* the position of a resource in the history of releases (0: not released)
ReleaseIndex(name) ==
    IF \E i \in 1..Len(life.released) : life.released[i] = name
    THEN CHOOSE i \in 1..Len(life.released) : life.released[i] = name
    ELSE 0

C16_NoHostUnwind ==
    /\ engine_ok
    /\ (eff.n > 0 /\ eff.invoked # Qnil)
          => \/ eff.result = "response"
             \/ eff.result = "InternalError" /\ eff.pending_after # NoExc

\* the exception the handler raised in the last failed effect call of the run
LastRaised == CHOOSE e \in run.raised : \A f \in run.raised : f.call <= e.call

\* C17: the slot holds one exception, the one of the last failed effect call
\* of the evaluation in progress; when the evaluation ends with a thrown value
\* and without timeout, evaluate raises that exception
C17_LastFailureWins ==
    /\ (pc = "running" /\ run.raised # {})
          => wrapper.pending_ruby_exception = LastRaised
    /\ (Ended /\ run.threw /\ wrapper.timed_out = 0 /\ run.raised # {})
          => /\ outcome.kind = "HostException"
             /\ outcome.origin = "deferred"
             /\ outcome.exc = LastRaised

\* two effect calls failed in one evaluation, the first error caught by the
\* script, and evaluate raised the exception of the second
C17_Witness ==
    /\ Ended /\ run.threw /\ wrapper.timed_out = 0
    /\ Cardinality(run.raised) = 2
    /\ \E e \in run.raised : e.call = 1 /\ e.cls # LastRaised.cls
    /\ outcome.kind = "HostException"
    /\ outcome.exc = LastRaised
    /\ outcome.exc.call = 2

\* the time limit is set and the evaluation in progress began more than
\* timeout_ms ago
Overdue == wrapper.timeout_ms > 0 /\ now - run.started > wrapper.timeout_ms

\* C18: whenever the engine may poll it, the interrupt hook sets timed_out
\* and returns 1 exactly when timeout_ms > 0 and more than timeout_ms has
\* elapsed since the current evaluate call began, and changes nothing and
\* returns 0 otherwise; timed_out is set by no other step; with
\* timeout_ms = 0 timed_out is never set and no evaluate call raises
\* TimeoutError
C18_HookIffOverdue ==
    /\ [](InScript =>
            LET r == interrupt_handler(wrapper, now)
            IN /\ r.ret = 1 <=> Overdue
               /\ r.ret = 1 => r.w = [wrapper EXCEPT !.timed_out = 1]
               /\ r.ret = 0 => r.w = wrapper)
    /\ [](wrapper.timeout_ms = 0
            => wrapper.timed_out = 0 /\ ~run.hook_fired /\ outcome.kind # "TimeoutError")
    /\ [][(wrapper.timed_out = 0 /\ wrapper'.timed_out # 0) => (InScript /\ Overdue)]_vars

\* a second evaluate call, begun when the clock had already advanced, ended
\* in TimeoutError once more than timeout_ms had elapsed since its own start
C18_Witness ==
    /\ Ended /\ nevals = 2
    /\ run.started > 0
    /\ run.hook_fired
    /\ now - run.started > wrapper.timeout_ms
    /\ outcome.kind = "TimeoutError"

\* C19: an effect call that passes the argument validation (a handler is
\* registered, the target is present and readable) invokes the handler once,
\* whether the handler returns or raises, and any other effect call invokes
\* nothing; an evaluate call that reaches the engine calls JS_Eval once
C19_SingleAttempt ==
    /\ eff.n > 0 =>
          IF eff.cb # Qnil /\ eff.target = "ok"
          THEN eff.calls = 1 /\ eff.invoked = eff.cb
          ELSE eff.calls = 0 /\ eff.invoked = Qnil
    /\ pc # "idle" => run.js_evals = 1
    /\ Ended => run.js_evals <= 1
    /\ (Ended /\ outcome.kind \in {"TimeoutError", "SyntaxError", "JavascriptError"})
          => run.js_evals = 1

\* the handler raised in an effect call, was invoked once, and the evaluate
\* call ended in the host exception after one run of the script
C19_Witness ==
    /\ Ended /\ outcome.kind = "HostException" /\ outcome.origin = "deferred"
    /\ eff.n > 0 /\ eff.result = "InternalError" /\ eff.calls = 1
    /\ run.js_evals = 1

\* twice the capacity, capped at console_max_size
CappedDoubling(w) ==
    IF w.console_output_capacity * 2 > w.console_max_size
    THEN w.console_max_size ELSE w.console_output_capacity * 2

\* C20: a step that changes the capacity of the console buffer makes it
\* twice the old capacity capped at console_max_size, or the bytes held
\* after the append when that is more; and the capacity never exceeds
\* console_max_size, also when console_max_size is below the initial capacity
C20_CapacityWithinCeiling ==
    /\ [](wrapper.console_output_capacity <= wrapper.console_max_size)
    /\ [][wrapper'.console_output_capacity # wrapper.console_output_capacity
            => \/ wrapper'.console_output_capacity = CappedDoubling(wrapper)
               \/ /\ wrapper'.console_output_capacity > CappedDoubling(wrapper)
                  /\ wrapper'.console_output_capacity <= wrapper'.console_output_len]_vars

\* C21: the terminating NUL byte, written at index console_output_len after
\* each append (line 110), at index 0 by the constructor (line 539) and by
\* the reset of each evaluate call (line 589), lies within the bytes
\* allocated for the buffer, and so do the bytes copied below it
C21_WritesWithinAllocation ==
    wrapper.console_output_len < wrapper.console_alloc

\* C22: the current-instance binding is set only while an evaluate call is
\* in flight: whenever no call is in flight, whichever way the last one
\* ended, the binding is NULL
C22_BindingOnlyInFlight ==
    pc = "idle" => current_wrapper = NULL

\* C23: while a script of the instance runs, its console and effect calls
\* are routed to the instance itself, also after its handler has run a
\* complete evaluation on the other instance: the binding names the
\* instance, each console line is captured in its buffer, each effect call
\* with a target reaches its handler, and the evaluation on the other
\* instance leaves its buffer and its deferred-exception slot alone
C23_RoutedToEvaluatingInstance ==
    /\ [](pc = "running" => current_wrapper = "w")
    /\ []((Ended /\ outcome.kind = "Result")
            => outcome.console_output =
                  SubSeq(run.lines, 1, Min(Len(run.lines), wrapper.console_max_size)))
    /\ []((eff.n > 0 /\ eff.cb # Qnil /\ eff.target = "ok") => eff.invoked = eff.cb)
    /\ [][other' # other
            => /\ wrapper'.console_output = wrapper.console_output
               /\ wrapper'.console_output_len = wrapper.console_output_len
               /\ wrapper'.pending_ruby_exception = wrapper.pending_ruby_exception]_vars

=============================================================================
